---- MODULE Spec2Model ----
(***************************************************************************)
(* A model of gnucash2ledger.py: the conversion of a Gnucash XML book into *)
(* a ledger journal.                                                       *)
(*                                                                         *)
(* Text is a sequence of tokens.  Where the code works on characters (the  *)
(* rational amounts, the formatted numbers) a token is one character;      *)
(* elsewhere (names, commodity ids, the fixed pieces of the patterns) a    *)
(* token is an atomic piece of text whose length TokLen gives.             *)
(*                                                                         *)
(* Python's None is the value None; an XML child that find() does not find *)
(* is Absent; an exception is a result whose err field names it.           *)
(***************************************************************************)
EXTENDS Integers, Sequences, FiniteSets, TLC

VARIABLES
    pc,            \* position of main(): see the actions
    args,          \* the parsed command line
    pos,           \* position of the loader in the book's element lists
    commodities,   \* GnucashData.commodities
    accountDb,     \* GnucashData.accountDb, in insertion order
    transactions,  \* GnucashData.transactions
    results,       \* the text LedgerConvertor.__call__ returned
    dest,          \* the output file: [exists, text]
    stdout,        \* the text printed on standard output
    arg,           \* the argument of a function applied on its own
    ret            \* what that function returned

vars == <<pc, args, pos, commodities, accountDb, transactions, results, dest, stdout, arg, ret>>

----------------------------------------------------------------------------
(* Bounds of the model *)

MaxDigits == 3        \* digits of a numerator
MaxDenomDigits == 3   \* digits of a denominator
MaxTreeAccounts == 3  \* accounts of a registry whose names are computed
MaxCommodities == 1   \* commodities of a book
MaxAccounts == 5      \* accounts of a book
MaxTransactions == 3  \* transactions of a book

----------------------------------------------------------------------------
(* Values *)

None == <<"<None>">>
Absent == <<"<Absent>">>
NoText == <<>>

Ok(v) == [err |-> "none", val |-> v]
Raise(e) == [err |-> e, val |-> <<>>]
IsOk(r) == r.err = "none"


(* the one element of a set of one element: {e(x) : x \in {v}} is e of the
   value v, computed once *)
Only(S) == CHOOSE y \in S : TRUE

Max(a, b) == IF a >= b THEN a ELSE b
Min(a, b) == IF a <= b THEN a ELSE b

Digits == {"0", "1", "2", "3", "4", "5", "6", "7", "8", "9"}

(* Python's s[:k] and s[k:]: a negative k counts from the end, and -0 is 0 *)
PyIndex(s, k) == IF k < 0 THEN Max(Len(s) + k, 0) ELSE Min(k, Len(s))
SliceTo(s, k) == SubSeq(s, 1, PyIndex(s, k))
SliceFrom(s, k) == SubSeq(s, PyIndex(s, k) + 1, Len(s))

(* Python's c * k for a one-character string c: empty when k <= 0 *)
Repeat(c, k) == [i \in 1..Max(k, 0) |-> c]

StartsWith(s, c) == Len(s) > 0 /\ s[1] = c
IsNegative(num) == StartsWith(num, "-")
Unsigned(s) == IF StartsWith(s, "-") THEN Tail(s) ELSE s

RECURSIVE StrSplit(_, _)
(* Python's s.split(sep) for a one-character separator *)
StrSplit(s, sep) ==
    IF \A i \in 1..Len(s) : s[i] # sep
    THEN <<s>>
    ELSE LET i == CHOOSE k \in 1..Len(s) :
                      s[k] = sep /\ \A j \in 1..(k - 1) : s[j] # sep
         IN  <<SubSeq(s, 1, i - 1)>> \o StrSplit(SubSeq(s, i + 1, Len(s)), sep)

----------------------------------------------------------------------------
(* Split.convertValue *)

convertValueNoPad(rawValue) ==
    LET parts == StrSplit(rawValue, "/") IN
    IF Len(parts) # 2 THEN Raise("ValueError")
    ELSE
    LET n == Len(parts[2]) - 1
        signFlag == StartsWith(parts[1], "-")
        intValue2 == IF signFlag THEN SliceFrom(parts[1], 1) ELSE parts[1]
        intValue4 == IF signFlag THEN <<"-">> \o intValue2 ELSE intValue2
    IN  Ok(SliceTo(intValue4, -n) \o <<".">> \o SliceFrom(intValue4, -n))

convertValue(rawValue) ==
    LET parts == StrSplit(rawValue, "/") IN
    IF Len(parts) # 2 THEN Raise("ValueError")
    ELSE
    LET intValue1 == parts[1]
        decPoint == parts[2]
        n == Len(decPoint) - 1
        signFlag == StartsWith(intValue1, "-")
        intValue2 == IF signFlag THEN SliceFrom(intValue1, 1) ELSE intValue1
        intValue3 == IF Len(intValue2) < n + 1
                     THEN Repeat("0", n + 1 - Len(intValue2)) \o intValue2
                     ELSE intValue2
        intValue4 == IF signFlag THEN <<"-">> \o intValue3 ELSE intValue3
    IN  Ok(SliceTo(intValue4, -n) \o <<".">> \o SliceFrom(intValue4, -n))

----------------------------------------------------------------------------
(* XML elements: a child is Absent (find() returns None) or is its text,
   which is None for an element without text *)

(* e.find(child).text *)
ChildText(child) == IF child = Absent THEN Raise("AttributeError") ELSE Ok(child)

(* orElse(e.find(child), default).text *)
orElse(child, default) == IF child = Absent THEN default ELSE child

(* str.format of a field *)
Format(v) == IF v = None THEN <<"None">> ELSE v

(* getCurrencySymbol: CurrencySymbols.get_symbol(code) or code *)
get_symbol(currencyCode) ==
    CASE currencyCode = <<"USD">> -> <<"$">>
      [] currencyCode = <<"EUR">> -> <<"€">>
      [] currencyCode = <<"GBP">> -> <<"£">>
      [] OTHER -> None

getCurrencySymbol(currencyCode) ==
    IF get_symbol(currencyCode) # None THEN get_symbol(currencyCode) ELSE currencyCode

----------------------------------------------------------------------------
(* Account and the registry accountDb: a dictionary, kept as the sequence of
   its values in insertion order *)

DbHas(db, id) == \E i \in 1..Len(db) : db[i].id = id
DbIndex(db, id) == CHOOSE i \in 1..Len(db) : db[i].id = id
DbGet(db, id) == db[DbIndex(db, id)]
(* accountDb[id] = account: a key already there keeps its place *)
DbPut(db, account) ==
    IF DbHas(db, account.id)
    THEN [db EXCEPT ![DbIndex(db, account.id)] = account]
    ELSE Append(db, account)

(* Account.__init__: the registry after the element e is constructed *)
AccountInit(db, e, useSymbols) ==
    IF \E f \in {"name", "id", "type"} : e[f] = Absent
    THEN Raise("AttributeError")
    ELSE LET cmdty == orElse(e.commodity, None)
         IN  Ok(DbPut(db, [name |-> e.name,
                           id |-> e.id,
                           description |-> orElse(e.description, NoText),
                           type |-> e.type,
                           parent |-> orElse(e.parent, None),
                           used |-> FALSE,
                           commodity |-> IF useSymbols THEN getCurrencySymbol(cmdty)
                                         ELSE cmdty]))

(* Account.getParent *)
getParent(db, account) ==
    IF DbHas(db, account.parent) THEN Ok(DbGet(db, account.parent)) ELSE Raise("KeyError")

(* prefix + self.name *)
PlusName(prefix, name) == IF name = None THEN Raise("TypeError") ELSE Ok(prefix \o name)

RECURSIVE fullNameThroughRoot(_, _, _)
fullNameThroughRoot(db, account, fuel) ==
    IF fuel = 0 THEN Raise("RecursionError")
    ELSE IF account.parent = None THEN PlusName(NoText, account.name)
    ELSE Only({IF ~IsOk(p) THEN p
               ELSE Only({IF ~IsOk(up) THEN up
                          ELSE PlusName(up.val \o <<":">>, account.name)
                          : up \in {fullNameThroughRoot(db, p.val, fuel - 1)}})
               : p \in {getParent(db, account)}})

RECURSIVE fullNameFrom(_, _, _)
(* Account.fullName with `fuel` frames of the interpreter's stack left *)
fullNameFrom(db, account, fuel) ==
    IF fuel = 0 THEN Raise("RecursionError")
    ELSE IF account.parent = None THEN PlusName(NoText, account.name)
    ELSE Only({IF ~IsOk(p) THEN p
               ELSE IF p.val.type = <<"ROOT">> THEN PlusName(NoText, account.name)
               ELSE Only({IF ~IsOk(up) THEN up
                          ELSE PlusName(up.val \o <<":">>, account.name)
                          : up \in {fullNameFrom(db, p.val, fuel - 1)}})
               : p \in {getParent(db, account)}})

(* Account.fullName: a chain of parents longer than the registry is a cycle,
   on which the recursion ends in a RecursionError *)
fullName(db, account) == fullNameFrom(db, account, Len(db) + 1)

(* Account.__str__ *)
AccountStr(db, account) ==
    Only({IF ~IsOk(fn) THEN fn
          ELSE Ok(<<"account ">> \o fn.val \o <<"\n", "    note ">>
                  \o Format(account.description)
                  \o <<" (type: ">> \o Format(account.type) \o <<")", "\n">>)
          : fn \in {fullName(db, account)}})

----------------------------------------------------------------------------
(* Account.fullName applied on its own to the accounts of a registry *)

IdTokens == <<"a1", "a2", "a3", "a4", "a5", "a6">>
NameTokens == <<"Alpha", "Beta", "Gamma", "Delta", "Epsilon", "Zeta">>
TreeIds == 1..MaxTreeAccounts
TreeParents == {None} \cup {<<IdTokens[i]>> : i \in TreeIds}
TreeTypes == {<<"ROOT">>, <<"ASSET">>}

TreeElement(i, parent, type) ==
    [name |-> <<NameTokens[i]>>, id |-> <<IdTokens[i]>>, description |-> Absent,
     type |-> type, parent |-> parent, commodity |-> <<"USD">>]

RECURSIVE LoadTree(_, _, _)
(* the registry after the accounts 1..k of the book are constructed *)
LoadTree(parents, types, k) ==
    IF k = 0 THEN <<>>
    ELSE AccountInit(LoadTree(parents, types, k - 1),
                     TreeElement(k, parents[k], types[k]), FALSE).val

InitName ==
    /\ pc = "call"
    /\ \E parents \in [TreeIds -> TreeParents], types \in [TreeIds -> TreeTypes] :
           accountDb = LoadTree(parents, types, MaxTreeAccounts)
    /\ arg = NoText
    /\ ret = Ok(NoText)
    /\ args = [x \in {} |-> FALSE]
    /\ pos = 0
    /\ commodities = <<>>
    /\ transactions = <<>>
    /\ results = Ok(NoText)
    /\ dest = [exists |-> FALSE, text |-> NoText]
    /\ stdout = NoText

FullName ==
    /\ pc = "call"
    /\ \E i \in 1..Len(accountDb) :
           /\ arg' = accountDb[i].id
           /\ ret' = fullName(accountDb, accountDb[i])
    /\ pc' = "return"
    /\ UNCHANGED <<args, pos, commodities, accountDb, transactions, results, dest, stdout>>

NextName == FullName

SpecName == InitName /\ [][NextName]_vars

----------------------------------------------------------------------------
(* Commodity *)

CommodityInit(e, useSymbols) ==
    [space |-> orElse(e.space, NoText),
     id |-> IF useSymbols THEN getCurrencySymbol(orElse(e.id, NoText))
            ELSE orElse(e.id, NoText),
     name |-> orElse(e.name, NoText)]

(* Commodity.__str__ *)
CommodityStr(c) ==
    <<"commodity ">> \o Format(c.id) \o <<"\n", "    note ">> \o Format(c.name)
        \o <<" (">> \o Format(c.space) \o <<":">> \o Format(c.id) \o <<")", "\n">>

----------------------------------------------------------------------------
(* Numbers as text *)

TextLen(text) == LET n[i \in 0..Len(text)] == IF i = 0 THEN 0 ELSE n[i - 1] + Len(text[i])
                 IN  n[Len(text)]

IsFloatText(body) ==
    /\ \A i \in 1..Len(body) : body[i] \in Digits \cup {"."}
    /\ Cardinality({i \in 1..Len(body) : body[i] = "."}) <= 1
    /\ \E i \in 1..Len(body) : body[i] \in Digits

RECURSIVE StripZeros(_)
StripZeros(ds) ==
    IF Len(ds) > 1 /\ ds[1] = "0" THEN StripZeros(Tail(ds)) ELSE ds

RECURSIVE Thousands(_)
Thousands(ds) ==
    IF Len(ds) <= 3 THEN ds
    ELSE Thousands(SubSeq(ds, 1, Len(ds) - 3)) \o <<",">> \o SubSeq(ds, Len(ds) - 2, Len(ds))

(* the digits before and after the point of a float text *)
FloatParts(body) ==
    {[whole |-> IF parts[1] = <<>> THEN <<"0">> ELSE StripZeros(parts[1]),
      frac |-> IF Len(parts) = 2 THEN parts[2] ELSE <<>>] : parts \in {StrSplit(body, ".")}}

(* "{:,.2f}".format(float(text)), for a text of at most two fraction digits
   (on which the binary rounding of float is exact); with more digits the
   result depends on the binary value and is not computed here *)
FormatFloat(text) ==
    IF ~IsFloatText(Unsigned(text)) THEN Raise("ValueError")
    ELSE Only({IF Len(f.frac) > 2 THEN Raise("RoundingNotModelled")
               ELSE Ok((IF IsNegative(text) THEN <<"-">> ELSE <<>>)
                       \o Thousands(f.whole) \o <<".">> \o f.frac
                       \o Repeat("0", 2 - Len(f.frac)))
               : f \in FloatParts(Unsigned(text))})

----------------------------------------------------------------------------
(* Split *)

(* Split.__init__: the split of element e, and the registry with its account
   marked used *)
SplitInit(db, e, commodity, allCleared, useSymbols, payeeMetaData) ==
    IF e.reconciled = Absent \/ e.account = Absent THEN Raise("AttributeError")
    ELSE IF ~DbHas(db, e.account) THEN Raise("KeyError")
    ELSE IF e.value \in {Absent, None} THEN Raise("AttributeError")
    ELSE Only({IF ~IsOk(value) THEN value
               ELSE IF e.quantity \in {Absent, None} THEN Raise("AttributeError")
               ELSE Only({IF ~IsOk(quantity) THEN quantity
                          ELSE Ok([split |-> [reconciled |-> e.reconciled = <<"y">>,
                                              accountId |-> e.account,
                                              memo |-> e.memo,
                                              allCleared |-> allCleared,
                                              useSymbols |-> useSymbols,
                                              payeeMetaData |-> payeeMetaData,
                                              commodity |-> commodity,
                                              value |-> value.val,
                                              quantity |-> quantity.val],
                                   db |-> [db EXCEPT ![DbIndex(db, e.account)].used = TRUE]])
                          : quantity \in {convertValue(e.quantity)}})
               : value \in {convertValue(e.value)}})

(* Split.getAccount *)
getAccount(db, split) == DbGet(db, split.accountId)

(* the amount of Split.__str__ for a split of the account `account` *)
SplitValueIn(account, split) ==
    IF split.commodity = account.commodity
    THEN Only({IF ~IsOk(f) THEN f
               ELSE IF split.useSymbols THEN Ok(Format(split.commodity) \o f.val)
               ELSE Ok(f.val \o <<" ">> \o Format(split.commodity))
               : f \in {FormatFloat(split.value)}})
    ELSE IF split.useSymbols
         THEN Ok(Format(account.commodity) \o split.quantity \o <<" ", "@@", " ">>
                 \o Format(split.commodity)
                 \o (IF StartsWith(split.value, "-") THEN SliceFrom(split.value, 1)
                     ELSE split.value))
         ELSE Ok(split.quantity \o <<" ">> \o Format(account.commodity)
                 \o <<" ", "@@", " ">>
                 \o (IF StartsWith(split.value, "-") THEN SliceFrom(split.value, 1)
                     ELSE split.value)
                 \o <<" ">> \o Format(split.commodity))

(* the amount of Split.__str__ *)
SplitValue(db, split) == SplitValueIn(getAccount(db, split), split)

SplitFlagIfReconciled(split) == IF split.reconciled THEN <<"* ">> ELSE <<>>

(* the flag of Split.__str__ *)
SplitFlag(split) == IF split.reconciled /\ ~split.allCleared THEN <<"* ">> ELSE <<>>

(* the memo of Split.__str__ *)
SplitMemo(split) ==
    IF split.memo # Absent /\ split.payeeMetaData
    THEN IF split.memo = None THEN Raise("TypeError")
         ELSE Ok(<<"  ; Payee: ">> \o split.memo)
    ELSE Ok(NoText)

LineWidth == 76

SpacesGapOnly(flag, accountName, value) ==
    Repeat(" ", 1 + LineWidth - TextLen(flag) - TextLen(accountName) - TextLen(value))

(* the spaces of Split.__str__ between an account name and an amount *)
Spaces(flag, accountName, value) ==
    <<" ">> \o Repeat(" ", LineWidth - TextLen(flag) - TextLen(accountName) - TextLen(value))

(* the line of Split.__str__ for the amount, account name and memo computed *)
SplitLine(split, value, accountName, memo) ==
    IF ~IsOk(value) THEN value
    ELSE IF ~IsOk(accountName) THEN accountName
    ELSE IF ~IsOk(memo) THEN memo
    ELSE Ok(<<"    ">> \o SplitFlag(split) \o accountName.val
            \o Spaces(SplitFlag(split), accountName.val, value.val)
            \o value.val \o memo.val)

(* Split.__str__ *)
SplitStr(db, split) ==
    Only({SplitLine(split, parts[1], parts[2], parts[3])
          : parts \in {<<SplitValue(db, split),
                         fullName(db, getAccount(db, split)),
                         SplitMemo(split)>>}})

----------------------------------------------------------------------------
(* Transaction *)

DateTexts == <<"2024-01-01", "2024-01-02", "2024-01-03">>

(* dateutil.parser.parse: the day a date text names *)
ParseDate(text) == CHOOSE d \in 1..Len(DateTexts) : DateTexts[d] = text[1]

(* date.strftime("%Y-%m-%d") *)
FormatDate(d) == <<DateTexts[d]>>

RECURSIVE SplitsInit(_, _, _, _, _, _)
(* the list comprehension of Transaction.__init__: the splits of the elements
   es in order, and the registry with their accounts marked used *)
SplitsInit(db, es, commodity, allCleared, useSymbols, payeeMetaData) ==
    IF es = <<>> THEN Ok([splits |-> <<>>, db |-> db])
    ELSE Only({IF ~IsOk(first) THEN first
               ELSE Only({IF ~IsOk(rest) THEN rest
                          ELSE Ok([splits |-> <<first.val.split>> \o rest.val.splits,
                                   db |-> rest.val.db])
                          : rest \in {SplitsInit(first.val.db, Tail(es), commodity,
                                                 allCleared, useSymbols, payeeMetaData)}})
               : first \in {SplitInit(db, Head(es), commodity, allCleared, useSymbols,
                                      payeeMetaData)}})

(* the transaction commodity of Transaction.__init__ *)
TransactionCommodity(e, useSymbols) ==
    IF useSymbols THEN getCurrencySymbol(e.currency) ELSE e.currency

(* Transaction.__init__ *)
TransactionInit(db, e, allCleared, useSymbols, payeeMetaData) ==
    IF e.date = Absent \/ e.currency = Absent \/ e.description = Absent
    THEN Raise("AttributeError")
    ELSE Only({IF ~IsOk(ss) THEN ss
               ELSE Ok([transaction |-> [cleared |-> allCleared,
                                         date |-> ParseDate(e.date),
                                         commodity |-> TransactionCommodity(e, useSymbols),
                                         description |-> e.description,
                                         splits |-> ss.val.splits],
                        db |-> ss.val.db])
               : ss \in {SplitsInit(db, e.splits, TransactionCommodity(e, useSymbols),
                                    allCleared, useSymbols, payeeMetaData)}})

RECURSIVE JoinSplits(_, _)
(* "\n".join(str(s) for s in self.splits) *)
JoinSplits(db, splits) ==
    IF splits = <<>> THEN Ok(NoText)
    ELSE Only({IF ~IsOk(first) \/ Len(splits) = 1 THEN first
               ELSE Only({IF ~IsOk(rest) THEN rest
                          ELSE Ok(first.val \o <<"\n">> \o rest.val)
                          : rest \in {JoinSplits(db, Tail(splits))}})
               : first \in {SplitStr(db, Head(splits))}})

(* the first line of Transaction.__str__ *)
TransactionHeader(t) ==
    FormatDate(t.date) \o (IF t.cleared THEN <<" ", "* ">> ELSE <<" ">>)
        \o Format(t.description)

(* Transaction.__str__ *)
TransactionStr(db, t) ==
    Only({IF ~IsOk(splits) THEN splits
          ELSE Ok(TransactionHeader(t) \o <<"\n">> \o splits.val \o <<"\n">>)
          : splits \in {JoinSplits(db, t.splits)}})

----------------------------------------------------------------------------
(* GnucashData.__init__: what it constructs of one element of the book *)

GnucashDataCommodity(e, useSymbols) == CommodityInit(e, useSymbols)

GnucashDataAccount(db, e, useSymbols) == AccountInit(db, e, useSymbols)

(* Transaction(...) is called without payeeMetaData, whose default is False *)
GnucashDataTransaction(db, e, useSymbols, allCleared, payeeMetaData) ==
    TransactionInit(db, e, allCleared, useSymbols, FALSE)

----------------------------------------------------------------------------
(* LedgerConvertor *)

(* str(emacsHeader(filename)) *)
EmacsHeaderStr(filename) ==
    <<";; -*- Mode: ledger -*- ", "\n", ";; ", "\n", ";; Filename: ">> \o Format(filename)
        \o <<" ", "\n",
             ";; Description: Gnucash transaction journal converted with gcash2ledger.py",
             "\n", ";; Time-stamp: <", "2024-01-31", "> ", "\n", "\n", "\n">>

RECURSIVE CommodityBlocks(_)
CommodityBlocks(cs) ==
    IF cs = <<>> THEN NoText
    ELSE <<"\n">> \o CommodityStr(Head(cs)) \o CommodityBlocks(Tail(cs))

(* LedgerConvertor.addCommodities *)
addCommodities(cs) ==
    Ok(<<";; Commodity Definitions", "\n", "\n">> \o CommodityBlocks(cs))

(* a block of a listing before the blocks after it *)
BlockBefore(first, rest) ==
    IF ~IsOk(first) THEN first
    ELSE IF ~IsOk(rest) THEN rest
    ELSE Ok(<<"\n">> \o first.val \o rest.val)

RECURSIVE AccountBlocksAll(_, _)
AccountBlocksAll(db, as) ==
    IF as = <<>> THEN Ok(NoText)
    ELSE Only({IF ~IsOk(first) THEN first
               ELSE Only({BlockBefore(first, rest)
                          : rest \in {AccountBlocksAll(db, Tail(as))}})
               : first \in {AccountStr(db, Head(as))}})

RECURSIVE AccountBlocks(_, _)
(* the loop of addAccounts over the accounts as, in registry order *)
AccountBlocks(db, as) ==
    IF as = <<>> THEN Ok(NoText)
    ELSE IF ~Head(as).used THEN AccountBlocks(db, Tail(as))
    ELSE Only({IF ~IsOk(first) THEN first
               ELSE Only({BlockBefore(first, rest)
                          : rest \in {AccountBlocks(db, Tail(as))}})
               : first \in {AccountStr(db, Head(as))}})

(* LedgerConvertor.addAccounts *)
addAccounts(db) ==
    Only({IF ~IsOk(blocks) THEN blocks
          ELSE Ok(<<"\n", "\n", ";; Account Definitions", "\n", "\n">> \o blocks.val)
          : blocks \in {AccountBlocks(db, db)}})

RECURSIVE InsertBeforeEqual(_, _)
InsertBeforeEqual(ts, t) ==
    IF ts = <<>> THEN <<t>>
    ELSE IF ts[Len(ts)].date < t.date THEN Append(ts, t)
    ELSE Append(InsertBeforeEqual(SubSeq(ts, 1, Len(ts) - 1), t), ts[Len(ts)])

RECURSIVE InsertByDate(_, _)
(* t put into the date-sorted list ts, after every element not later than it *)
InsertByDate(ts, t) ==
    IF ts = <<>> THEN <<t>>
    ELSE IF ts[Len(ts)].date <= t.date THEN Append(ts, t)
    ELSE Append(InsertByDate(SubSeq(ts, 1, Len(ts) - 1), t), ts[Len(ts)])

RECURSIVE SortedByDate(_)
(* sorted(transactions, key=lambda x: x.date): a stable sort *)
SortedByDate(ts) ==
    IF ts = <<>> THEN <<>>
    ELSE InsertByDate(SortedByDate(SubSeq(ts, 1, Len(ts) - 1)), ts[Len(ts)])

RECURSIVE TransactionBlocks(_, _)
TransactionBlocks(db, ts) ==
    IF ts = <<>> THEN Ok(NoText)
    ELSE Only({IF ~IsOk(first) THEN first
               ELSE Only({BlockBefore(first, rest)
                          : rest \in {TransactionBlocks(db, Tail(ts))}})
               : first \in {TransactionStr(db, Head(ts))}})

(* LedgerConvertor.addTransactions *)
addTransactions(db, ts) ==
    Only({IF ~IsOk(blocks) THEN blocks
          ELSE Ok(<<"\n", "\n", ";;Transactions", "\n", "\n">> \o blocks.val)
          : blocks \in {TransactionBlocks(db, SortedByDate(ts))}})

ConvertorAccountsWithTransactions(a, cs, db, ts) ==
    Only({IF ~IsOk(cmdtys) THEN cmdtys
          ELSE Only({IF ~IsOk(accts) THEN accts
                     ELSE Only({IF ~IsOk(trans) THEN trans
                                ELSE Ok((IF a.emacs_header THEN EmacsHeaderStr(a.output)
                                         ELSE NoText)
                                        \o cmdtys.val \o accts.val \o trans.val)
                                : trans \in {IF ~a.no_transactions
                                             THEN addTransactions(db, ts)
                                             ELSE Ok(NoText)}})
                     : accts \in {IF ~a.no_account_defs /\ ~a.no_transactions
                                  THEN addAccounts(db)
                                  ELSE Ok(NoText)}})
          : cmdtys \in {IF ~a.no_commodity_defs THEN addCommodities(cs)
                        ELSE Ok(NoText)}})

(* LedgerConvertor.__call__ *)
Convertor(a, cs, db, ts) ==
    Only({IF ~IsOk(cmdtys) THEN cmdtys
          ELSE Only({IF ~IsOk(accts) THEN accts
                     ELSE Only({IF ~IsOk(trans) THEN trans
                                ELSE Ok((IF a.emacs_header THEN EmacsHeaderStr(a.output)
                                         ELSE NoText)
                                        \o cmdtys.val \o accts.val \o trans.val)
                                : trans \in {IF ~a.no_transactions
                                             THEN addTransactions(db, ts)
                                             ELSE Ok(NoText)}})
                     : accts \in {IF ~a.no_account_defs THEN addAccounts(db)
                                  ELSE Ok(NoText)}})
          : cmdtys \in {IF ~a.no_commodity_defs THEN addCommodities(cs)
                        ELSE Ok(NoText)}})

----------------------------------------------------------------------------
(* The books converted: the elements of a book are elements of the reference
   book below, in its order *)

BookCommodities ==
    << [space |-> <<"ISO4217">>, id |-> <<"USD">>, name |-> <<"US Dollar">>],
       [space |-> <<"ISO4217">>, id |-> <<"EUR">>, name |-> Absent] >>

(* Checking stands before its parent Assets; Cash has no commodity; XTS is a
   currency without a symbol and without fraction digits *)
BookAccounts ==
    << [name |-> <<"Checking">>, id |-> <<"a3">>, description |-> None,
        type |-> <<"BANK">>, parent |-> <<"a2">>, commodity |-> <<"USD">>],
       [name |-> <<"Root Account">>, id |-> <<"a1">>, description |-> Absent,
        type |-> <<"ROOT">>, parent |-> Absent, commodity |-> <<"USD">>],
       [name |-> <<"Assets">>, id |-> <<"a2">>, description |-> <<"All assets">>,
        type |-> <<"ASSET">>, parent |-> <<"a1">>, commodity |-> <<"USD">>],
       [name |-> <<"Euros">>, id |-> <<"a4">>, description |-> Absent,
        type |-> <<"BANK">>, parent |-> <<"a1">>, commodity |-> <<"EUR">>],
       [name |-> <<"Cash">>, id |-> <<"a5">>, description |-> <<"Wallet">>,
        type |-> <<"CASH">>, parent |-> <<"a1">>, commodity |-> Absent],
       [name |-> <<"Tokens">>, id |-> <<"a6">>, description |-> <<"Test currency">>,
        type |-> <<"BANK">>, parent |-> <<"a1">>, commodity |-> <<"XTS">>] >>

SplitElement(account, state, memo, value, quantity) ==
    [account |-> account, reconciled |-> state, memo |-> memo,
     value |-> value, quantity |-> quantity]

BookTransactions ==
    << [date |-> <<"2024-01-02">>, currency |-> <<"USD">>,
        description |-> <<"Groceries">>,
        splits |-> << SplitElement(<<"a3">>, <<"y">>, <<"Grocer">>,
                                   <<"-", "1", "2", "5", "0", "/", "1", "0", "0">>,
                                   <<"-", "1", "2", "5", "0", "/", "1", "0", "0">>),
                      SplitElement(<<"a4">>, <<"n">>, Absent,
                                   <<"1", "2", "5", "0", "/", "1", "0", "0">>,
                                   <<"1", "1", "5", "0", "/", "1", "0", "0">>) >>],
       [date |-> <<"2024-01-01">>, currency |-> <<"USD">>,
        description |-> None,
        splits |-> << SplitElement(<<"a4">>, <<"n">>, None,
                                   <<"-", "1", "1", "0", "0", "0", "/", "1", "0", "0">>,
                                   <<"-", "1", "0", "0", "0", "0", "/", "1", "0", "0">>),
                      SplitElement(<<"a5">>, <<"c">>, Absent,
                                   <<"1", "1", "0", "0", "0", "/", "1", "0", "0">>,
                                   <<"1", "1", "0", "0", "0", "/", "1", "0", "0">>) >>],
       [date |-> <<"2024-01-01">>, currency |-> <<"EUR">>,
        description |-> <<"Transfer">>,
        splits |-> << SplitElement(<<"a2">>, <<"y">>, Absent,
                                   <<"-", "3", "0", "0", "/", "1", "0", "0">>,
                                   <<"-", "3", "3", "0", "/", "1", "0", "0">>),
                      SplitElement(<<"a4">>, <<"c">>, <<"Bureau">>,
                                   <<"1", "2", "3", "4", "5", "6", "/", "1", "0">>,
                                   <<"1", "2", "3", "4", "5", "6", "/", "1", "0">>) >>],
       [date |-> <<"2024-01-02">>, currency |-> <<"XTS">>,
        description |-> <<"Exchange">>,
        splits |-> << SplitElement(<<"a2">>, <<"y">>, <<"Teller">>,
                                   <<"-", "7", "/", "1">>,
                                   <<"-", "2", "5", "/", "1", "0", "0">>),
                      SplitElement(<<"a6">>, <<"n">>, Absent,
                                   <<"7", "/", "1">>, <<"7", "/", "1">>) >>],
       [date |-> <<"2024-01-01">>, currency |-> <<"USD">>,
        description |-> Absent,
        splits |-> << >>],
       [date |-> <<"2024-01-03">>, currency |-> <<"XTS">>,
        description |-> <<"Refund">>,
        splits |-> << SplitElement(<<"a6">>, <<"y">>, <<"Shop">>,
                                   <<"-", "7", "/", "1">>, <<"-", "7", "/", "1">>) >>],
       [date |-> <<"2024-01-03">>, currency |-> <<"USD">>,
        description |-> <<"Garbled">>,
        splits |-> << SplitElement(<<"a2">>, <<"n">>, Absent,
                                   <<"5">>, <<"5", "/", "1", "0", "0">>) >>] >>

----------------------------------------------------------------------------
(* main() *)

OutputName == <<"out.ledger">>

RenderArgs ==
    [use_symbols : BOOLEAN, cleared : BOOLEAN, payee_metadata : BOOLEAN,
     emacs_header : {FALSE}, no_commodity_defs : {FALSE}, no_account_defs : {FALSE},
     no_transactions : {FALSE}, output : {None}, force_clobber : {FALSE}]

OutputArgs ==
    [use_symbols : {FALSE}, cleared : {FALSE}, payee_metadata : {FALSE},
     emacs_header : {FALSE}, no_commodity_defs : {FALSE}, no_account_defs : {FALSE},
     no_transactions : {FALSE}, output : {OutputName}, force_clobber : BOOLEAN]

OldText == <<"old text">>

Init ==
    /\ pc = "commodities"
    /\ \/ args \in RenderArgs /\ dest = [exists |-> FALSE, text |-> NoText]
       \/ args \in OutputArgs
          /\ dest \in {[exists |-> FALSE, text |-> NoText],
                       [exists |-> TRUE, text |-> OldText]}
    /\ pos = 0
    /\ commodities = <<>>
    /\ accountDb = <<>>
    /\ transactions = <<>>
    /\ results = Ok(NoText)
    /\ stdout = NoText
    /\ arg = NoText
    /\ ret = Ok(NoText)

(* the loop over book.findall("gnc:commodity") takes the next commodity *)
LoadCommodity ==
    /\ pc = "commodities"
    /\ Len(commodities) < MaxCommodities
    /\ \E i \in (pos + 1)..Len(BookCommodities) :
           /\ commodities' = Append(commodities,
                                    GnucashDataCommodity(BookCommodities[i], args.use_symbols))
           /\ pos' = i
    /\ UNCHANGED <<pc, args, accountDb, transactions, results, dest, stdout, arg, ret>>

(* the loop over book.findall("gnc:account") takes the next account, the first
   one once the commodities are through *)
LoadAccount ==
    /\ pc \in {"commodities", "accounts"}
    /\ Len(accountDb) < MaxAccounts
    /\ \E i \in ((IF pc = "accounts" THEN pos ELSE 0) + 1)..Len(BookAccounts) :
           \E r \in {GnucashDataAccount(accountDb, BookAccounts[i], args.use_symbols)} :
           /\ pos' = i
           /\ IF IsOk(r)
              THEN accountDb' = r.val /\ pc' = "accounts" /\ ret' = ret
              ELSE accountDb' = accountDb /\ pc' = "failed" /\ ret' = r
    /\ UNCHANGED <<args, commodities, transactions, results, dest, stdout, arg>>

(* the loop over book.findall("gnc:transaction") takes the next transaction,
   the first one once the accounts are through *)
LoadTransaction ==
    /\ pc \in {"commodities", "accounts", "transactions"}
    /\ Len(transactions) < MaxTransactions
    /\ \E i \in ((IF pc = "transactions" THEN pos ELSE 0) + 1)..Len(BookTransactions) :
           \E r \in {GnucashDataTransaction(accountDb, BookTransactions[i],
                                            args.use_symbols, args.cleared,
                                            args.payee_metadata)} :
               /\ pos' = i
               /\ IF IsOk(r)
                  THEN /\ transactions' = Append(transactions, r.val.transaction)
                       /\ accountDb' = r.val.db
                       /\ pc' = "transactions"
                       /\ ret' = ret
                  ELSE /\ transactions' = transactions
                       /\ accountDb' = accountDb
                       /\ pc' = "failed"
                       /\ ret' = r
    /\ UNCHANGED <<args, commodities, results, dest, stdout, arg>>

Loading == pc \in {"commodities", "accounts", "transactions"}

(* print(convertor()), the book being through *)
PrintResults ==
    /\ Loading
    /\ args.output = None
    /\ \E r \in {Convertor(args, commodities, accountDb, transactions)} :
       /\ results' = r
       /\ IF IsOk(r)
          THEN stdout' = stdout \o r.val \o <<"\n">> /\ pc' = "done" /\ ret' = ret
          ELSE stdout' = stdout /\ pc' = "failed" /\ ret' = r
    /\ UNCHANGED <<args, pos, commodities, accountDb, transactions, dest, arg>>

(* the output file exists and -f is not given: the message is printed *)
RefuseClobber ==
    /\ Loading
    /\ args.output # None
    /\ dest.exists /\ ~args.force_clobber
    /\ stdout' = stdout \o <<"File ">> \o args.output
                     \o <<" exists.", "\n", "Please specify a new name or run",
                          "script again with -f to force clobbering of existing ",
                          "file", "\n">>
    /\ pc' = "done"
    /\ UNCHANGED <<args, pos, commodities, accountDb, transactions, results, dest, arg, ret>>

(* open(args.output[0], "w"): the file is created, or truncated *)
OpenOutput ==
    /\ Loading
    /\ args.output # None
    /\ ~(dest.exists /\ ~args.force_clobber)
    /\ dest' = [exists |-> TRUE, text |-> NoText]
    /\ pc' = "opened"
    /\ UNCHANGED <<args, pos, commodities, accountDb, transactions, results, stdout, arg, ret>>

(* outFile.write(convertor()) *)
WriteResults ==
    /\ pc = "opened"
    /\ \E r \in {Convertor(args, commodities, accountDb, transactions)} :
       /\ results' = r
       /\ IF IsOk(r)
          THEN dest' = [dest EXCEPT !.text = @ \o r.val] /\ pc' = "done" /\ ret' = ret
          ELSE dest' = dest /\ pc' = "failed" /\ ret' = r
    /\ UNCHANGED <<args, pos, commodities, accountDb, transactions, stdout, arg>>

Next ==
    \/ LoadCommodity
    \/ LoadAccount
    \/ LoadTransaction
    \/ PrintResults
    \/ RefuseClobber
    \/ OpenOutput
    \/ WriteResults

Spec == Init /\ [][Next]_vars

----------------------------------------------------------------------------
(* The decoder applied on its own to "<N>/<D>" *)

NumeratorDigits == {"0", "1", "7"}
DigitStrings == UNION {[1..k -> NumeratorDigits] : k \in 1..MaxDigits}
Numerators == DigitStrings \cup {<<"-">> \o d : d \in DigitStrings}
Denominators == {<<"1">> \o Repeat("0", k) : k \in 0..(MaxDenomDigits - 1)}

Idle ==
    /\ args = [x \in {} |-> FALSE]
    /\ pos = 0
    /\ commodities = <<>>
    /\ accountDb = <<>>
    /\ transactions = <<>>
    /\ results = Ok(NoText)
    /\ dest = [exists |-> FALSE, text |-> NoText]
    /\ stdout = NoText

InitValue ==
    /\ pc = "call"
    /\ arg \in [num : Numerators, den : Denominators]
    /\ ret = Ok(NoText)
    /\ Idle

ConvertValue ==
    /\ pc = "call"
    /\ pc' = "return"
    /\ ret' = convertValue(arg.num \o <<"/">> \o arg.den)
    /\ UNCHANGED <<args, pos, commodities, accountDb, transactions, results, dest, stdout, arg>>

NextValue == ConvertValue

SpecValue == InitValue /\ [][NextValue]_vars

----------------------------------------------------------------------------
(* GnucashData.__init__ over a whole book, and the conversion of a book *)

LoadCommodities(es, useSymbols) ==
    [i \in 1..Len(es) |-> GnucashDataCommodity(es[i], useSymbols)]

RECURSIVE LoadAccounts(_, _, _)
(* the loop over book.findall("gnc:account") *)
LoadAccounts(db, es, useSymbols) ==
    IF es = <<>> THEN Ok(db)
    ELSE Only({IF ~IsOk(first) THEN first
               ELSE LoadAccounts(first.val, Tail(es), useSymbols)
               : first \in {GnucashDataAccount(db, Head(es), useSymbols)}})

RECURSIVE LoadTransactions(_, _, _, _)
(* the loop over book.findall("gnc:transaction"), ts being the transactions
   appended so far *)
LoadTransactions(db, ts, es, a) ==
    IF es = <<>> THEN Ok([accountDb |-> db, transactions |-> ts])
    ELSE Only({IF ~IsOk(first) THEN first
               ELSE LoadTransactions(first.val.db, Append(ts, first.val.transaction),
                                     Tail(es), a)
               : first \in {GnucashDataTransaction(db, Head(es), a.use_symbols, a.cleared,
                                                   a.payee_metadata)}})

(* GnucashData.__init__ *)
GnucashDataInit(book, a) ==
    Only({IF ~IsOk(db) THEN db
          ELSE Only({IF ~IsOk(loaded) THEN loaded
                     ELSE Ok([commodities |-> LoadCommodities(book.commodities,
                                                              a.use_symbols),
                              accountDb |-> loaded.val.accountDb,
                              transactions |-> loaded.val.transactions])
                     : loaded \in {LoadTransactions(db.val, <<>>, book.transactions, a)}})
          : db \in {LoadAccounts(<<>>, book.accounts, a.use_symbols)}})

(* convertor(), the data being loaded *)
Converting(data, a) ==
    IF IsOk(data)
    THEN Convertor(a, data.val.commodities, data.val.accountDb, data.val.transactions)
    ELSE data

----------------------------------------------------------------------------
(* The split line: books of one account and one transaction of one split,
   converted with currency codes and then with currency symbols *)

LineNames ==
    {<<"Cash">>,
     <<"Expenses of the household for food and drink bought in the market 1">>,
     <<"Expenses of the household for food and drink bought in the market of the town 12">>}

LineCommodities == {<<"USD">>, <<"EUR">>, <<"$">>, Absent}
LineCurrencies == {<<"USD">>, <<"EUR">>, <<"$">>}

LineValues ==
    {<<"1", "2", "5", "0", "/", "1", "0", "0">>,
     <<"-", "1", "2", "5", "0", "/", "1", "0", "0">>,
     <<"1", "2", "3", "4", "5", "6", "7", "8", "9", "/", "1", "0", "0">>}

LineQuantities ==
    {<<"1", "1", "5", "0", "/", "1", "0", "0">>,
     <<"-", "9", "9", "9", "0", "0", "/", "1", "0", "0">>}

LineBook(name, commodity, currency, state, value, quantity) ==
    [commodities |-> <<>>,
     accounts |-> << [name |-> name, id |-> <<"a1">>, description |-> Absent,
                      type |-> <<"BANK">>, parent |-> Absent, commodity |-> commodity] >>,
     transactions |-> << [date |-> <<"2024-01-01">>, currency |-> currency,
                          description |-> <<"Purchase">>,
                          splits |-> << SplitElement(<<"a1">>, state, Absent,
                                                     value, quantity) >>] >>]

LineBooks ==
    {LineBook(name, commodity, currency, state, value, quantity) :
        name \in LineNames, commodity \in LineCommodities, currency \in LineCurrencies,
        state \in {<<"y">>, <<"n">>}, value \in LineValues, quantity \in LineQuantities}

LineArgs ==
    [use_symbols : {FALSE}, cleared : BOOLEAN, payee_metadata : {FALSE},
     emacs_header : {FALSE}, no_commodity_defs : {FALSE}, no_account_defs : {FALSE},
     no_transactions : {FALSE}, output : {None}, force_clobber : {FALSE}]

InitLine ==
    /\ pc = "codes"
    /\ args \in LineArgs
    /\ arg \in LineBooks
    /\ pos = 0
    /\ commodities = <<>>
    /\ accountDb = <<>>
    /\ transactions = <<>>
    /\ results = Ok(NoText)
    /\ ret = Ok(NoText)
    /\ dest = [exists |-> FALSE, text |-> NoText]
    /\ stdout = NoText

(* the book is loaded and converted with currency codes *)
ConvertCodes ==
    /\ pc = "codes"
    /\ \E data \in {GnucashDataInit(arg, args)} :
           /\ IF IsOk(data)
              THEN /\ commodities' = data.val.commodities
                   /\ accountDb' = data.val.accountDb
                   /\ transactions' = data.val.transactions
              ELSE UNCHANGED <<commodities, accountDb, transactions>>
           /\ results' = Converting(data, args)
    /\ pc' = "symbols"
    /\ UNCHANGED <<args, pos, dest, stdout, arg, ret>>

(* the same book is loaded and converted with currency symbols *)
ConvertSymbols ==
    /\ pc = "symbols"
    /\ args' = [args EXCEPT !.use_symbols = TRUE]
    /\ \E data \in {GnucashDataInit(arg, args')} :
           /\ IF IsOk(data)
              THEN /\ commodities' = data.val.commodities
                   /\ accountDb' = data.val.accountDb
                   /\ transactions' = data.val.transactions
              ELSE UNCHANGED <<commodities, accountDb, transactions>>
           /\ ret' = Converting(data, args')
    /\ pc' = "compared"
    /\ UNCHANGED <<pos, dest, stdout, arg, results>>

NextLine == ConvertCodes \/ ConvertSymbols

SpecLine == InitLine /\ [][NextLine]_vars

----------------------------------------------------------------------------
(* The sections: books of the reference book's first elements, converted under
   every choice of the sections to put out *)

SectionArgs ==
    [use_symbols : BOOLEAN, cleared : {FALSE}, payee_metadata : {FALSE},
     emacs_header : BOOLEAN, no_commodity_defs : BOOLEAN, no_account_defs : BOOLEAN,
     no_transactions : BOOLEAN, output : {None}, force_clobber : {FALSE}]

SectionBooks ==
    {[commodities |-> SubSeq(BookCommodities, 1, c),
      accounts |-> SubSeq(BookAccounts, 1, Min(MaxAccounts, Len(BookAccounts))),
      transactions |-> SubSeq(BookTransactions, 1, t)] :
        c \in 0..Min(MaxCommodities, Len(BookCommodities)),
        t \in 0..Min(MaxTransactions, Len(BookTransactions))}

InitSections ==
    /\ pc = "start"
    /\ args \in SectionArgs
    /\ arg \in SectionBooks
    /\ pos = 0
    /\ commodities = <<>>
    /\ accountDb = <<>>
    /\ transactions = <<>>
    /\ results = Ok(NoText)
    /\ ret = Ok(NoText)
    /\ dest = [exists |-> FALSE, text |-> NoText]
    /\ stdout = NoText

(* convertor = LedgerConvertor(args): the book is loaded *)
Construct ==
    /\ pc = "start"
    /\ \E data \in {GnucashDataInit(arg, args)} :
           IF IsOk(data)
           THEN /\ commodities' = data.val.commodities
                /\ accountDb' = data.val.accountDb
                /\ transactions' = data.val.transactions
                /\ pc' = "loaded"
                /\ ret' = ret
           ELSE /\ UNCHANGED <<commodities, accountDb, transactions>>
                /\ pc' = "failed"
                /\ ret' = data
    /\ UNCHANGED <<args, pos, results, dest, stdout, arg>>

(* print(convertor()) *)
Convert ==
    /\ pc = "loaded"
    /\ \E r \in {Convertor(args, commodities, accountDb, transactions)} :
       /\ results' = r
       /\ IF IsOk(r)
          THEN stdout' = stdout \o r.val \o <<"\n">> /\ pc' = "done" /\ ret' = ret
          ELSE stdout' = stdout /\ pc' = "failed" /\ ret' = r
    /\ UNCHANGED <<args, pos, commodities, accountDb, transactions, dest, arg>>

NextSections == Construct \/ Convert

SpecSections == InitSections /\ [][NextSections]_vars

----------------------------------------------------------------------------
(* Reading the converted text *)

(* the convertor has returned its text and main() has put it out *)
Converted == pc = "done" /\ IsOk(results) /\ results.val # NoText

Lines(text) == StrSplit(text, "\n")
LinesFrom(text, firsts) == SelectSeq(Lines(text), LAMBDA l : l # <<>> /\ l[1] \in firsts)

AccountLines(text) == LinesFrom(text, {"account "})
HeaderLines(text) == LinesFrom(text, {DateTexts[d] : d \in 1..Len(DateTexts)})
SplitLines(text) == LinesFrom(text, {"    "})

Count(line, token) == Cardinality({i \in 1..Len(line) : line[i] = token})
Contains(line, part) ==
    \E i \in 0..(Len(line) - Len(part)) : SubSeq(line, i + 1, i + Len(part)) = part
EndsWith(line, part) ==
    Len(line) >= Len(part) /\ SubSeq(line, Len(line) - Len(part) + 1, Len(line)) = part
AfterToken(line, token) ==
    SubSeq(line, (CHOOSE i \in 1..Len(line) : line[i] = token) + 1, Len(line))

(* the places of the loaded transactions by date, book order among equal dates *)
DateOrder(ts) ==
    CHOOSE p \in [1..Len(ts) -> 1..Len(ts)] :
        \A i, j \in 1..Len(ts) :
            i < j => \/ ts[p[i]].date < ts[p[j]].date
                     \/ ts[p[i]].date = ts[p[j]].date /\ p[i] < p[j]

RECURSIVE SplitsOf(_, _, _)
SplitsOf(ts, p, i) ==
    IF i > Len(ts) THEN <<>> ELSE ts[p[i]].splits \o SplitsOf(ts, p, i + 1)

(* the splits of the loaded transactions in the order of their lines *)
RenderedSplits == SplitsOf(transactions, DateOrder(transactions), 1)

Referenced(account) ==
    \E i \in 1..Len(transactions) : \E j \in 1..Len(transactions[i].splits) :
        transactions[i].splits[j].accountId = account.id

HasMemo(split) == split.memo \notin {Absent, None}

----------------------------------------------------------------------------
(* Claims about the converted text *)

(* C1: with the payee metadata option every split that has a memo is put out
   with "  ; Payee: <memo>" at the end of its line; without the option, or
   without a memo, the split line carries no such annotation. *)
C1_PayeeAnnotation ==
    Converted =>
        LET ls == SplitLines(results.val) IN
        /\ Len(ls) = Len(RenderedSplits)
        /\ \A i \in 1..Len(ls) :
               IF args.payee_metadata /\ HasMemo(RenderedSplits[i])
               THEN EndsWith(ls[i], <<"  ; Payee: ">> \o RenderedSplits[i].memo)
               ELSE Count(ls[i], "  ; Payee: ") = 0

(* C2: the accounts section lists, in registry order, exactly the accounts
   that a split of some loaded transaction references; an account no split
   references has no line. *)
C2_OnlyReferencedAccounts ==
    Converted =>
        LET ls == AccountLines(results.val)
            referenced == SelectSeq(accountDb, Referenced)
        IN  /\ Len(ls) = Len(referenced)
            /\ \A i \in 1..Len(ls) :
                   /\ Referenced(referenced[i])
                   /\ ls[i] = <<"account ">> \o fullName(accountDb, referenced[i]).val

(* Checking is listed; its parent Assets and the ROOT account, which no split
   references, are not *)
C2_Witness ==
    /\ Converted
    /\ Contains(results.val, <<"account ", "Assets", ":", "Checking", "\n">>)
    /\ \E i, j \in 1..Len(accountDb) :
           /\ accountDb[i].type = <<"ROOT">> /\ ~Referenced(accountDb[i])
           /\ accountDb[j].name = <<"Assets">> /\ ~Referenced(accountDb[j])
    /\ ~Contains(results.val, <<"account ", "Assets", "\n">>)
    /\ ~Contains(results.val, <<"account ", "Root Account", "\n">>)

(* C3: the transactions section holds every loaded transaction exactly once,
   in non-decreasing date order, transactions of equal date in book order. *)
C3_SortedStable ==
    Converted =>
        LET hs == HeaderLines(results.val)
            n == Len(transactions)
        IN  /\ Len(hs) = n
            /\ \E p \in [1..n -> 1..n] :
                   /\ \A k \in 1..n : \E i \in 1..n : p[i] = k
                   /\ \A i \in 1..n : hs[i] = TransactionHeader(transactions[p[i]])
                   /\ \A i, j \in 1..n :
                          i < j => /\ transactions[p[i]].date <= transactions[p[j]].date
                                   /\ transactions[p[i]].date = transactions[p[j]].date
                                          => p[i] < p[j]

(* three transactions, the first later than the other two, which have the
   same date: they are put out second, third, first *)
C3_Witness ==
    /\ Converted
    /\ Len(transactions) = 3
    /\ transactions[1].date > transactions[2].date
    /\ transactions[2].date = transactions[3].date
    /\ HeaderLines(results.val) = << TransactionHeader(transactions[2]),
                                     TransactionHeader(transactions[3]),
                                     TransactionHeader(transactions[1]) >>

(* C5: a split whose account commodity is the transaction's commodity has a
   single amount and no "@@"; otherwise its amount is
   <quantity> <account commodity> @@ <value> <transaction commodity> (with
   symbols: <account commodity><quantity> @@ <transaction commodity><value>)
   with exactly one "@@", the value being the split's value without its
   leading minus sign: it never starts with "-", and the sign is on the
   quantity side only. *)
C5_ConversionForm ==
    Converted =>
        LET ls == SplitLines(results.val) IN
        /\ Len(ls) = Len(RenderedSplits)
        /\ \A i \in 1..Len(ls) :
               LET split == RenderedSplits[i]
                   account == getAccount(accountDb, split)
                   value == Unsigned(split.value)
               IN  IF account.commodity = split.commodity
                   THEN Count(ls[i], "@@") = 0
                   ELSE /\ Count(ls[i], "@@") = 1
                        /\ IF args.use_symbols
                           THEN Contains(ls[i], Format(account.commodity) \o split.quantity
                                                \o <<" ", "@@", " ">>
                                                \o Format(split.commodity) \o value)
                           ELSE Contains(ls[i], split.quantity \o <<" ">>
                                                \o Format(account.commodity)
                                                \o <<" ", "@@", " ">> \o value \o <<" ">>
                                                \o Format(split.commodity))
                        /\ ~StartsWith(value, "-")
                        /\ Count(AfterToken(ls[i], "@@"), "-") = 0

(* C6: a transaction's first line has the "* " marker between date and
   description iff all transactions are cleared; a split line has the "* "
   flag before its account name iff the split is reconciled and not all
   transactions are cleared. *)
C6_ClearedMarkers ==
    Converted =>
        LET hs == HeaderLines(results.val)
            ls == SplitLines(results.val)
        IN  /\ Len(ls) = Len(RenderedSplits)
            /\ \A i \in 1..Len(hs) :
                   /\ hs[i][2] = " "
                   /\ (Len(hs[i]) >= 3 /\ hs[i][3] = "* ") <=> args.cleared
                   /\ Count(hs[i], "* ") = (IF args.cleared THEN 1 ELSE 0)
            /\ \A i \in 1..Len(ls) :
                   /\ ls[i][2] = "* " <=> (RenderedSplits[i].reconciled /\ ~args.cleared)
                   /\ Count(ls[i], "* ") =
                          (IF RenderedSplits[i].reconciled /\ ~args.cleared THEN 1 ELSE 0)

(* all cleared: the first lines carry the marker and the line of a reconciled
   split carries no flag *)
C6_Witness ==
    /\ Converted
    /\ args.cleared
    /\ \E i \in 1..Len(RenderedSplits) :
           /\ RenderedSplits[i].reconciled
           /\ SplitLines(results.val)[i][2] # "* "
    /\ \E i \in 1..Len(HeaderLines(results.val)) : HeaderLines(results.val)[i][3] = "* "

(* C9: an optional text (a transaction's description, an account's
   description, a split's memo, an account's commodity id) that is missing or
   empty in the book is put out as the empty text: the conversion does not
   fail and the text holds no "None". *)
C9_EmptyNotNone ==
    /\ Converted => Count(results.val, "None") = 0
    /\ pc = "failed" => ret.err # "AttributeError"

(* C10: when the conversion fails, nothing has been produced at the
   destination: standard output is empty and the output file is as it was,
   neither created nor emptied. *)
C10_NoPartialOutput ==
    pc = "failed" =>
        /\ stdout = NoText
        /\ dest.exists => dest.text = OldText

----------------------------------------------------------------------------
(* Claims about the decoder *)

WithoutDot(s) == SelectSeq(s, LAMBDA c : c # ".")
DigitValue(c) == CHOOSE v \in 0..9 : <<"0", "1", "2", "3", "4", "5", "6", "7", "8", "9">>[v + 1] = c

RECURSIVE DecimalValue(_)
DecimalValue(s) ==
    IF s = <<>> THEN 0
    ELSE 10 * DecimalValue(SubSeq(s, 1, Len(s) - 1)) + DigitValue(s[Len(s)])

Places == Len(arg.den) - 1

(* C7: with a denominator of at least two digits, the result of "<N>/<D>" is
   an optional "-" (present iff N is negative), at least one integer digit, a
   ".", and exactly n = (digits of D) - 1 fraction digits; without the "." the
   digits are N's digits left-padded with zeros to at least n + 1 digits, so
   the decimal value is N / 10^n. *)
C7_DecodedDecimal ==
    (pc = "return" /\ Places >= 1) =>
        /\ IsOk(ret)
        /\ LET r == ret.val
               body == Unsigned(r)
               digits == WithoutDot(body)
               N == Unsigned(arg.num)
           IN  /\ StartsWith(r, "-") <=> IsNegative(arg.num)
               /\ Len(body) >= Places + 2
               /\ body[Len(body) - Places] = "."
               /\ \A i \in 1..Len(body) : i # Len(body) - Places => body[i] \in Digits
               /\ Len(digits) = Max(Len(N), Places + 1)
               /\ SubSeq(digits, Len(digits) - Len(N) + 1, Len(digits)) = N
               /\ \A i \in 1..(Len(digits) - Len(N)) : digits[i] = "0"
               /\ DecimalValue(digits) = DecimalValue(N)

(* a negative numerator shorter than n + 1 digits was padded: "-7/100" *)
C7_Witness ==
    /\ pc = "return"
    /\ arg = [num |-> <<"-", "7">>, den |-> <<"1", "0", "0">>]
    /\ ret = Ok(<<"-", "0", ".", "0", "7">>)

(* C8: with a one-digit denominator the result of "<N>/<D>" is the numerator
   string followed by a trailing "." and an empty fractional part. *)
C8_TrailingDot ==
    (pc = "return" /\ Places = 0) => ret = Ok(arg.num \o <<".">>)

----------------------------------------------------------------------------
(* Claims about full names *)

ParentIndex(db, i) == IF db[i].parent = None THEN 0 ELSE DbIndex(db, db[i].parent)

RECURSIVE Ancestor(_, _, _)
(* the account k parent links above account i; 0 above an account without parent *)
Ancestor(db, i, k) ==
    IF k = 0 \/ i = 0 THEN i ELSE Ancestor(db, ParentIndex(db, i), k - 1)

Acyclic(db) ==
    /\ \A i \in 1..Len(db) : db[i].parent # None => DbHas(db, db[i].parent)
    /\ \A i \in 1..Len(db) : Ancestor(db, i, Len(db)) = 0

IsRootAbove(db, i, k) ==
    Ancestor(db, i, k) # 0 /\ db[Ancestor(db, i, k)].type = <<"ROOT">>

(* how many accounts a full name has: up to the first ROOT-typed ancestor *)
NameDepth(db, i) ==
    CHOOSE k \in 1..Len(db) :
        /\ Ancestor(db, i, k) = 0 \/ IsRootAbove(db, i, k)
        /\ \A j \in 1..(k - 1) : Ancestor(db, i, j) # 0 /\ ~IsRootAbove(db, i, j)

ColonJoined(db, i) ==
    LET k == NameDepth(db, i) IN
    [x \in 1..(2 * k - 1) |->
        IF x % 2 = 0 THEN ":" ELSE db[Ancestor(db, i, k - ((x + 1) \div 2))].name[1]]

Called == DbIndex(accountDb, arg)

(* C4: in an acyclic account tree the full name of an account is the names of
   the account and of its ancestors below the first ROOT-typed ancestor, joined
   by colons, outermost first; the name of a ROOT-typed ancestor is no segment
   of it. *)
C4_FullNameStopsAtRoot ==
    (pc = "return" /\ Acyclic(accountDb)) =>
        /\ ret = Ok(ColonJoined(accountDb, Called))
        /\ \A k \in 1..Len(accountDb) :
               IsRootAbove(accountDb, Called, k) =>
                   \A x \in 1..Len(ret.val) :
                       ret.val[x] # accountDb[Ancestor(accountDb, Called, k)].name[1]

(* Gamma under Beta under the ROOT-typed Alpha is "Beta:Gamma" *)
C4_Witness ==
    /\ pc = "return"
    /\ Acyclic(accountDb)
    /\ arg = <<"a3">>
    /\ IsRootAbove(accountDb, Called, 2)
    /\ ~IsRootAbove(accountDb, Called, 1)
    /\ ret = Ok(<<"Beta", ":", "Gamma">>)

----------------------------------------------------------------------------
(* Claims about the split line *)

(* what the last conversion of the book returned *)
LineOutput == IF pc = "compared" THEN ret ELSE results
LineConverted == pc \in {"symbols", "compared"}

(* the place of the account name on a split line, after the flag if any *)
NameAt(line) == IF line[2] = "* " THEN 3 ELSE 2
FlagLen(line) == IF line[2] = "* " THEN 2 ELSE 0

(* the number of spaces that follow the account name *)
SeparatorLen(line) ==
    CHOOSE k \in 0..Len(line) :
        /\ \A i \in 1..k : NameAt(line) + i <= Len(line) /\ line[NameAt(line) + i] = " "
        /\ NameAt(line) + k + 1 <= Len(line) => line[NameAt(line) + k + 1] # " "

(* the amount text: what follows the separating spaces *)
AmountOf(line) == SubSeq(line, NameAt(line) + SeparatorLen(line) + 1, Len(line))

Gap(line) ==
    LineWidth - FlagLen(line) - TextLen(<<line[NameAt(line)]>>) - TextLen(AmountOf(line))

(* C11: a split is put out without error, its account name and its amount
   separated by exactly 1 + max(gap, 0) spaces, where gap = 76 - len(flag)
   - len(account name) - len(amount); when gap >= 0 the amount ends at the
   same column on every line, when gap < 0 one space separates them. *)
C11_SeparatorWidth ==
    LineConverted =>
        /\ IsOk(LineOutput)
        /\ Len(SplitLines(LineOutput.val)) = 1
        /\ \A line \in {SplitLines(LineOutput.val)[1]} :
               /\ line[NameAt(line)] = accountDb[1].name[1]
               /\ AmountOf(line) # <<>>
               /\ SeparatorLen(line) = 1 + (IF Gap(line) > 0 THEN Gap(line) ELSE 0)
               /\ Gap(line) >= 0 => TextLen(line) = 4 + 1 + LineWidth

(* a flagged split of the account with the name of 80 characters: the gap is
   negative and one space stands before the amount *)
C11_Witness ==
    /\ LineConverted
    /\ IsOk(LineOutput)
    /\ \E line \in {SplitLines(LineOutput.val)[1]} :
           /\ FlagLen(line) = 2
           /\ TextLen(<<line[NameAt(line)]>>) = 80
           /\ Gap(line) < 0
           /\ SeparatorLen(line) = 1
           /\ Contains(line, <<"@@">>)

(* the split line is in the conversion form "<quantity> @@ <value>" *)
IsConversion(text) == Contains(SplitLines(text)[1], <<"@@">>)

(* the commodity codes of the book's account and of its transaction differ *)
CodesDiffer == orElse(arg.accounts[1].commodity, None) # arg.transactions[1].currency

(* C13: for the same book, the split is put out in the @@ conversion form with
   currency symbols iff it is put out in that form with currency codes, that
   is iff the commodity code of its account differs from the commodity code of
   its transaction. *)
C13_SymbolsKeepStructure ==
    pc = "compared" /\ IsOk(results) /\ IsOk(ret) =>
        /\ IsConversion(ret.val) <=> IsConversion(results.val)
        /\ IsConversion(ret.val) <=> CodesDiffer

----------------------------------------------------------------------------
(* Claims about the sections *)

(* the text of a section that is put out *)
SectionText(enabled, section) == IF enabled THEN section.val ELSE NoText

(* C12: the converted text is the header, the commodities section, the
   accounts section and the transactions section, in this order, of those that
   are enabled; the text of a section is that of the loaded book whatever the
   other sections' toggles, and the accounts section lists the accounts that
   splits reference also when the transactions section is disabled. *)
C12_SectionsIndependent ==
    pc = "done" /\ IsOk(results) =>
        /\ results.val =
               (IF args.emacs_header THEN EmacsHeaderStr(args.output) ELSE NoText)
               \o SectionText(~args.no_commodity_defs, addCommodities(commodities))
               \o SectionText(~args.no_account_defs, addAccounts(accountDb))
               \o SectionText(~args.no_transactions,
                              addTransactions(accountDb, transactions))
        /\ Len(AccountLines(results.val)) =
               (IF args.no_account_defs THEN 0
                ELSE Cardinality({i \in 1..Len(accountDb) : Referenced(accountDb[i])}))
        /\ Len(HeaderLines(results.val)) =
               (IF args.no_transactions THEN 0 ELSE Len(transactions))
        /\ Count(results.val, ";; Commodity Definitions") =
               (IF args.no_commodity_defs THEN 0 ELSE 1)
        /\ Count(results.val, ";; -*- Mode: ledger -*- ") =
               (IF args.emacs_header THEN 1 ELSE 0)

(* the header and the accounts section alone: the accounts of the splits are
   listed though no transaction is put out *)
C12_Witness ==
    /\ pc = "done" /\ IsOk(results)
    /\ args.emacs_header /\ args.no_commodity_defs /\ ~args.no_account_defs
    /\ args.no_transactions
    /\ Len(transactions) >= 2
    /\ Len(AccountLines(results.val)) >= 3
    /\ Contains(results.val, <<"account ", "Assets", ":", "Checking", "\n">>)
    /\ Count(results.val, ";;Transactions") = 0
    /\ results.val[1] = ";; -*- Mode: ledger -*- "

====
